---- MODULE Spec2Model ----
(***************************************************************************)
(* Model of the Mafia game engine (game_logic.py, models.py, config.py),   *)
(* of the callers that drive it (turn_based_game.py, ai_agents.py,         *)
(* main.py, web_server.py, mcp_server.py) and of the VoteCounter of        *)
(* utils.py.                                                               *)
(*                                                                         *)
(* Encoding of Python values:                                              *)
(*   - an Optional[str] None is the string "None";                         *)
(*   - an Optional[int] is a set: {} for None, {r} for the integer r;      *)
(*   - a dict is a function; the empty dict is the function on {};         *)
(*   - an Enum member is the string of its value.                          *)
(* phase_start_time (a wall-clock reading) is not modelled.                *)
(***************************************************************************)
EXTENDS Integers, Sequences, FiniteSets, TLC

VARIABLES
    default_player_count,  \* GameConfig.default_player_count
    players,               \* MafiaGame.players: sequence of Player records
    current_phase,         \* MafiaGame.current_phase
    current_round,         \* MafiaGame.current_round
    current_votes,         \* MafiaGame.current_votes
    night_actions,         \* MafiaGame.night_actions
    ret,                   \* the last call of the engine and the value it returned
    calls,                 \* how many resolutions the caller has requested so far
    before,                \* players, round and phase when the last call started
    days,                  \* how many day resolutions were requested
    electorate,            \* how many players were alive when the votes were collected
    turns,                 \* the turn each web request thread is carrying out
    game_history,          \* TurnBasedMafiaGame.game_history: the turns' entries
    counter,               \* a VoteCounter: its votes and its vote_counts
    investigation_results, \* DetectiveAgent.investigation_results
    sim                    \* run_simulation: where it stands, and its game_round

vars == <<default_player_count, players, current_phase, current_round,
          current_votes, night_actions, ret, calls, before, days, electorate,
          turns, game_history, counter, investigation_results, sim>>

\* the objects beside the game, which no method of the game touches
beside == <<counter, investigation_results, sim>>

----------------------------------------------------------------------------
(* Bounds of the model *)

\* a caller requests at most MaxCalls night or day resolutions of one game
MaxCalls == 2

\* days with arbitrary vote maps are explored while current_round < MaxRound
MaxRound == 2

----------------------------------------------------------------------------
(* models.py *)

None == "None"
EmptyDict == [k \in {} |-> k]

MAFIA == "mafia"
TOWNSPERSON == "townsperson"
DOCTOR == "doctor"
DETECTIVE == "detective"
Role == {MAFIA, TOWNSPERSON, DOCTOR, DETECTIVE}

SETUP == "setup"
NIGHT == "night"
DAY == "day"
GAME_OVER == "game_over"
Phase == {SETUP, NIGHT, DAY, GAME_OVER}

\* Player(name=name): the field defaults of the pydantic model
Player(name) ==
    [name |-> name, role |-> None, is_alive |-> TRUE, death_round |-> {},
     voting_history |-> <<>>, actions_taken |-> <<>>]

----------------------------------------------------------------------------
(* config.py *)

min_players == 5
max_players == 12

default_players ==
    <<"Alice", "Bob", "Charlie", "Diana", "Eve", "Frank", "Grace", "Henry",
      "Isabella", "Jack", "Katherine", "Liam">>

Min(a, b) == IF a <= b THEN a ELSE b
Max(a, b) == IF a >= b THEN a ELSE b

get_total_players == Min(default_player_count, Len(default_players))

get_player_names == SubSeq(default_players, 1, get_total_players)

min_mafia_count == 1
max_mafia_count == 4
doctor_enabled == TRUE
detective_enabled == TRUE

\* mafia_ratio = 0.25, a float that is exactly the fraction 1/4
mafia_ratio == [numerator |-> 1, denominator |-> 4]

\* int(total_players * mafia_ratio): the product is exact for these operands
\* and int truncates it; no total is negative
MafiaShare(total_players) ==
    (total_players * mafia_ratio.numerator) \div mafia_ratio.denominator

\* the distribution of a configuration whose max_mafia_count is 2
get_role_distribution_two_mafia ==
    LET total_players == get_total_players
        mafia_count == Max(min_mafia_count, Min(2, MafiaShare(total_players)))
        doctor_count == IF doctor_enabled /\ total_players >= 5 THEN 1 ELSE 0
        detective_count == IF detective_enabled /\ total_players >= 6 THEN 1 ELSE 0
    IN  (MAFIA :> mafia_count) @@ (DOCTOR :> doctor_count)
        @@ (DETECTIVE :> detective_count)
        @@ (TOWNSPERSON :> total_players - mafia_count - doctor_count
                              - detective_count)

\* GameConfig.get_role_distribution
get_role_distribution ==
    LET total_players == get_total_players
        mafia_count == Max(min_mafia_count,
                           Min(max_mafia_count, MafiaShare(total_players)))
        doctor_count == IF doctor_enabled /\ total_players >= 5 THEN 1 ELSE 0
        detective_count == IF detective_enabled /\ total_players >= 6 THEN 1 ELSE 0
    IN  (MAFIA :> mafia_count) @@ (DOCTOR :> doctor_count)
        @@ (DETECTIVE :> detective_count)
        @@ (TOWNSPERSON :> total_players - mafia_count - doctor_count
                              - detective_count)

\* sum(role_dist.values())
SumOfRoles(role_dist) ==
    role_dist[MAFIA] + role_dist[DOCTOR] + role_dist[DETECTIVE]
        + role_dist[TOWNSPERSON]

\* GameConfig.validate_configuration
validate_configuration ==
    LET total_players == get_total_players
        role_dist == get_role_distribution
    IN  /\ total_players >= min_players
        /\ total_players <= max_players
        /\ SumOfRoles(role_dist) = total_players
        /\ role_dist[TOWNSPERSON] >= 1

----------------------------------------------------------------------------
(* game_logic.py: role assignment *)

\* RolePool with the detective threshold of the doctor
RolePoolDetectiveAtFive(total_players) ==
    LET num_mafia == Max(1, total_players \div 4)
        num_doctor == IF total_players >= 5 THEN 1 ELSE 0
        num_detective == IF total_players >= 5 THEN 1 ELSE 0
        num_townspeople == total_players - num_mafia - num_doctor - num_detective
        Rep(r, n) == [i \in 1..n |-> r]
    IN  Rep(MAFIA, num_mafia) \o Rep(DOCTOR, num_doctor)
        \o Rep(DETECTIVE, num_detective) \o Rep(TOWNSPERSON, num_townspeople)

\* RolePool with the doctor threshold of the detective
RolePoolDoctorAtSix(total_players) ==
    LET num_mafia == Max(1, total_players \div 4)
        num_doctor == IF total_players >= 6 THEN 1 ELSE 0
        num_detective == IF total_players >= 6 THEN 1 ELSE 0
        num_townspeople == total_players - num_mafia - num_doctor - num_detective
        Rep(r, n) == [i \in 1..n |-> r]
    IN  Rep(MAFIA, num_mafia) \o Rep(DOCTOR, num_doctor)
        \o Rep(DETECTIVE, num_detective) \o Rep(TOWNSPERSON, num_townspeople)

\* the role pool of assign_roles, before the shuffle
RolePool(total_players) ==
    LET num_mafia == Max(1, total_players \div 4)
        num_doctor == IF total_players >= 5 THEN 1 ELSE 0
        num_detective == IF total_players >= 6 THEN 1 ELSE 0
        num_townspeople == total_players - num_mafia - num_doctor - num_detective
        Rep(r, n) == [i \in 1..n |-> r]
    IN  Rep(MAFIA, num_mafia) \o Rep(DOCTOR, num_doctor)
        \o Rep(DETECTIVE, num_detective) \o Rep(TOWNSPERSON, num_townspeople)

Count(seq, x) == Cardinality({i \in DOMAIN seq : seq[i] = x})

RECURSIVE Arrangements(_)
\* all sequences holding c[r] copies of each role r
Arrangements(c) ==
    IF \A r \in Role : c[r] = 0 THEN {<<>>}
    ELSE UNION { { <<r>> \o s : s \in Arrangements([c EXCEPT ![r] = @ - 1]) }
                 : r \in {q \in Role : c[q] > 0} }

\* random.shuffle(roles): every permutation of the pool is a possible outcome
Shuffle(roles) == Arrangements([r \in Role |-> Count(roles, r)])

\* zip(players, roles): pairs up to the shorter of the two
ZipRoles(ps, roles) ==
    [i \in DOMAIN ps |-> IF i <= Len(roles) THEN [ps[i] EXCEPT !.role = roles[i]]
                         ELSE ps[i]]

\* setup_game: create the players, assign the roles, start night 1
setup_game ==
    /\ LET created == [i \in 1..Len(get_player_names) |-> Player(get_player_names[i])]
       IN  \E roles \in Shuffle(RolePool(Len(created))) :
               players' = ZipRoles(created, roles)
    /\ current_phase' = NIGHT
    /\ current_round' = 1
    /\ ret' = [op |-> "setup_game"]
    /\ UNCHANGED <<default_player_count, current_votes, night_actions>>

\* assign_roles: a fresh shuffled pool for the players there are
assign_roles ==
    /\ \E roles \in Shuffle(RolePool(Len(players))) :
           players' = ZipRoles(players, roles)
    /\ ret' = [op |-> "assign_roles"]
    /\ UNCHANGED <<default_player_count, current_phase, current_round,
                   current_votes, night_actions>>

----------------------------------------------------------------------------
(* game_logic.py: queries *)

get_living_players == SelectSeq(players, LAMBDA p : p.is_alive)
get_dead_players == SelectSeq(players, LAMBDA p : ~p.is_alive)
get_mafia_members == SelectSeq(get_living_players, LAMBDA p : p.role = MAFIA)
get_townspeople == SelectSeq(get_living_players, LAMBDA p : p.role # MAFIA)

\* is_game_over with a strict comparison: parity is not yet a win
is_game_over_majority_only ==
    LET living_mafia == Len(get_mafia_members)
        living_townspeople == Len(get_townspeople)
    IN  living_mafia > living_townspeople \/ living_mafia = 0

\* is_game_over: mafia parity or majority, or no mafia left
is_game_over ==
    LET living_mafia == Len(get_mafia_members)
        living_townspeople == Len(get_townspeople)
    IN  living_mafia >= living_townspeople \/ living_mafia = 0

\* get_winner without the branch for the townspeople
get_winner_mafia_only ==
    LET living_mafia == Len(get_mafia_members)
        living_townspeople == Len(get_townspeople)
    IN  IF is_game_over /\ living_mafia >= living_townspeople THEN "Mafia" ELSE None

\* get_winner: None while the game goes on, else the side that won
get_winner ==
    LET living_mafia == Len(get_mafia_members)
        living_townspeople == Len(get_townspeople)
    IN  IF ~is_game_over THEN None
        ELSE IF living_mafia >= living_townspeople THEN "Mafia"
        ELSE IF living_mafia = 0 THEN "Townspeople"
        ELSE None

\* get_doctor, get_detective: the name of the first living holder of the role
FirstLiving(role) ==
    LET holders == SelectSeq(get_living_players, LAMBDA p : p.role = role)
    IN  IF holders # <<>> THEN holders[1].name ELSE None

get_doctor == FirstLiving(DOCTOR)
get_detective == FirstLiving(DETECTIVE)

\* index of the first player with that name, 0 when there is none
get_player_by_name(ps, name) ==
    IF \E i \in DOMAIN ps : ps[i].name = name
    THEN CHOOSE i \in DOMAIN ps : /\ ps[i].name = name
                                  /\ \A j \in DOMAIN ps : ps[j].name = name => i <= j
    ELSE 0

----------------------------------------------------------------------------
(* game_logic.py: night resolution *)

\* NightResults investigating only players who are alive
NightResultsOfLiving(ps, mafia_target, doctor_save, detective_investigation) ==
    LET t == get_player_by_name(ps, mafia_target)
        hit == mafia_target # None /\ t # 0 /\ ps[t].is_alive
        d == get_player_by_name(ps, detective_investigation)
    IN  [eliminated |-> IF hit /\ doctor_save # mafia_target THEN mafia_target ELSE None,
         saved |-> hit /\ doctor_save = mafia_target,
         investigation_result |->
             IF detective_investigation # None /\ d # 0 /\ ps[d].is_alive
             THEN {[target |-> detective_investigation, is_mafia |-> ps[d].role = MAFIA]}
             ELSE {}]

\* NightResults reporting a save whenever save and target are equal
NightResultsSavedOnMatch(ps, mafia_target, doctor_save, detective_investigation) ==
    LET t == get_player_by_name(ps, mafia_target)
        hit == mafia_target # None /\ t # 0 /\ ps[t].is_alive
        d == get_player_by_name(ps, detective_investigation)
    IN  [eliminated |-> IF hit /\ doctor_save # mafia_target THEN mafia_target ELSE None,
         saved |-> doctor_save = mafia_target,
         investigation_result |->
             IF detective_investigation # None /\ d # 0
             THEN {[target |-> detective_investigation, is_mafia |-> ps[d].role = MAFIA]}
             ELSE {}]

\* NightResults reporting a save without looking at the target
NightResultsSavedUnchecked(ps, mafia_target, doctor_save, detective_investigation) ==
    LET t == get_player_by_name(ps, mafia_target)
        hit == mafia_target # None /\ t # 0 /\ ps[t].is_alive
        d == get_player_by_name(ps, detective_investigation)
    IN  [eliminated |-> IF hit /\ doctor_save # mafia_target THEN mafia_target ELSE None,
         saved |-> mafia_target # None /\ doctor_save = mafia_target,
         investigation_result |->
             IF detective_investigation # None /\ d # 0
             THEN {[target |-> detective_investigation, is_mafia |-> ps[d].role = MAFIA]}
             ELSE {}]

\* the outcome record of process_night_actions
NightResults(ps, mafia_target, doctor_save, detective_investigation) ==
    LET t == get_player_by_name(ps, mafia_target)
        hit == mafia_target # None /\ t # 0 /\ ps[t].is_alive
        d == get_player_by_name(ps, detective_investigation)
    IN  [eliminated |-> IF hit /\ doctor_save # mafia_target THEN mafia_target ELSE None,
         saved |-> hit /\ doctor_save = mafia_target,
         investigation_result |->
             IF detective_investigation # None /\ d # 0
             THEN {[target |-> detective_investigation, is_mafia |-> ps[d].role = MAFIA]}
             ELSE {}]

\* NightKill without the doctor's save
NightKillIgnoringSave(ps, round, mafia_target, doctor_save) ==
    LET t == get_player_by_name(ps, mafia_target)
    IN  IF mafia_target # None /\ t # 0 /\ ps[t].is_alive
        THEN [ps EXCEPT ![t].is_alive = FALSE, ![t].death_round = {round}]
        ELSE ps

\* the players after the mafia kill of process_night_actions
NightKill(ps, round, mafia_target, doctor_save) ==
    LET t == get_player_by_name(ps, mafia_target)
    IN  IF mafia_target # None /\ t # 0 /\ ps[t].is_alive /\ doctor_save # mafia_target
        THEN [ps EXCEPT ![t].is_alive = FALSE, ![t].death_round = {round}]
        ELSE ps

\* process_night_actions keeping the record of an earlier night
process_night_actions_unrecorded(mafia_target, doctor_save, detective_investigation) ==
    LET results == NightResults(players, mafia_target, doctor_save,
                                detective_investigation)
    IN  /\ players' = NightKill(players, current_round, mafia_target, doctor_save)
        /\ current_phase' = DAY
        /\ ret' = [op |-> "process_night_actions", value |-> results]
        /\ UNCHANGED <<default_player_count, current_round, current_votes,
                       night_actions>>

process_night_actions(mafia_target, doctor_save, detective_investigation) ==
    LET results == NightResults(players, mafia_target, doctor_save,
                                detective_investigation)
    IN  /\ players' = NightKill(players, current_round, mafia_target, doctor_save)
        /\ night_actions' = [round |-> current_round,
                             mafia_target |-> mafia_target,
                             doctor_save |-> doctor_save,
                             detective_investigation |-> detective_investigation,
                             results |-> results]
        /\ current_phase' = DAY
        /\ ret' = [op |-> "process_night_actions", value |-> results]
        /\ UNCHANGED <<default_player_count, current_round, current_votes>>

----------------------------------------------------------------------------
(* game_logic.py: day voting *)

\* Counter(votes.values())
VoteCounts(votes) ==
    [t \in {votes[v] : v \in DOMAIN votes} |->
        Cardinality({v \in DOMAIN votes : votes[v] = t})]

\* Candidates with the comparison turned around: the fewest votes
CandidatesFewest(vote_counts) ==
    {t \in DOMAIN vote_counts :
        \A u \in DOMAIN vote_counts : vote_counts[u] >= vote_counts[t]}

\* the targets holding the maximum count
Candidates(vote_counts) ==
    {t \in DOMAIN vote_counts :
        \A u \in DOMAIN vote_counts : vote_counts[u] <= vote_counts[t]}

\* Eliminate with the name test turned around: everybody else dies
EliminateOthers(ps, round, eliminated_player_name) ==
    [i \in DOMAIN ps |->
        IF ps[i].name # eliminated_player_name
        THEN [ps[i] EXCEPT !.is_alive = FALSE, !.death_round = {round}]
        ELSE ps[i]]

\* Eliminate without the death round
EliminateKeepingRound(ps, round, eliminated_player_name) ==
    LET e == get_player_by_name(ps, eliminated_player_name)
    IN  IF e # 0
        THEN [ps EXCEPT ![e].is_alive = FALSE]
        ELSE ps

\* the players after the elimination of process_day_voting
Eliminate(ps, round, eliminated_player_name) ==
    LET e == get_player_by_name(ps, eliminated_player_name)
    IN  IF e # 0
        THEN [ps EXCEPT ![e].is_alive = FALSE, ![e].death_round = {round}]
        ELSE ps

\* RecordVotes skipping the voters who are dead by then
RecordVotesOfLiving(ps, round, votes) ==
    [i \in DOMAIN ps |->
        IF ps[i].name \in DOMAIN votes
           /\ get_player_by_name(ps, ps[i].name) = i
           /\ ps[i].is_alive
        THEN [ps[i] EXCEPT !.voting_history =
                  Append(@, [round |-> round, voted_for |-> votes[ps[i].name]])]
        ELSE ps[i]]

\* the players after the voting history of every voter is recorded
RecordVotes(ps, round, votes) ==
    [i \in DOMAIN ps |->
        IF ps[i].name \in DOMAIN votes
           /\ get_player_by_name(ps, ps[i].name) = i
        THEN [ps[i] EXCEPT !.voting_history =
                  Append(@, [round |-> round, voted_for |-> votes[ps[i].name]])]
        ELSE ps[i]]

\* NoVotesOutcome with the reason of the other return
NoVotesOutcomeMajority ==
    [eliminated |-> None, votes |-> EmptyDict, reason |-> "Majority vote"]

\* the outcome returned when no vote was cast
NoVotesOutcome ==
    [eliminated |-> None, votes |-> EmptyDict, reason |-> "No votes cast"]

process_day_voting(votes) ==
    LET vote_counts == VoteCounts(votes)
    IN  /\ current_votes' = votes
        /\ IF DOMAIN vote_counts = {}
           THEN /\ ret' = [op |-> "process_day_voting", value |-> NoVotesOutcome]
                /\ UNCHANGED <<players, current_round, current_phase>>
           ELSE \E eliminated_player_name \in Candidates(vote_counts) :
                LET e == get_player_by_name(players, eliminated_player_name)
                IN  /\ players' = RecordVotes(
                           Eliminate(players, current_round, eliminated_player_name),
                           current_round, votes)
                    /\ ret' = [op |-> "process_day_voting",
                               value |-> [eliminated |-> eliminated_player_name,
                                          eliminated_role |->
                                              IF e # 0 THEN players[e].role ELSE None,
                                          votes |-> vote_counts,
                                          reason |-> "Majority vote"]]
                    /\ current_round' = current_round + 1
                    /\ current_phase' = NIGHT
        /\ UNCHANGED <<default_player_count, night_actions>>

----------------------------------------------------------------------------
(* game_logic.py: the actions the players submit *)

\* the entry that submit_player_action records
ActionEntry(action_type, target) ==
    [type |-> action_type, target |-> target, round |-> current_round,
     phase |-> current_phase]

\* submit_player_action that does not look at is_alive
submit_player_action_of_anyone(player_name, action_type, target) ==
    LET player == get_player_by_name(players, player_name)
    IN  /\ IF player = 0
           THEN /\ ret' = [op |-> "submit_player_action", value |-> FALSE,
                           player_name |-> player_name,
                           action_type |-> action_type, target |-> target]
                /\ UNCHANGED players
           ELSE /\ players' = [players EXCEPT ![player].actions_taken =
                                  Append(@, ActionEntry(action_type, target))]
                /\ ret' = [op |-> "submit_player_action", value |-> TRUE,
                           player_name |-> player_name,
                           action_type |-> action_type, target |-> target]
        /\ UNCHANGED <<default_player_count, current_phase, current_round,
                       current_votes, night_actions>>

\* MafiaGame.submit_player_action; ret keeps the arguments with the result
submit_player_action(player_name, action_type, target) ==
    LET player == get_player_by_name(players, player_name)
    IN  /\ IF player = 0 \/ ~players[player].is_alive
           THEN /\ ret' = [op |-> "submit_player_action", value |-> FALSE,
                           player_name |-> player_name,
                           action_type |-> action_type, target |-> target]
                /\ UNCHANGED players
           ELSE /\ players' = [players EXCEPT ![player].actions_taken =
                                  Append(@, ActionEntry(action_type, target))]
                /\ ret' = [op |-> "submit_player_action", value |-> TRUE,
                           player_name |-> player_name,
                           action_type |-> action_type, target |-> target]
        /\ UNCHANGED <<default_player_count, current_phase, current_round,
                       current_votes, night_actions>>

----------------------------------------------------------------------------
(* game_logic.py: the read-only methods, with their results *)

get_game_state ==
    [phase |-> current_phase,
     round |-> current_round,
     living_players |-> Len(get_living_players),
     dead_players |-> Len(get_dead_players),
     mafia_count |-> Len(get_mafia_members),
     townspeople_count |-> Len(get_townspeople),
     is_game_over |-> is_game_over,
     winner |-> get_winner,
     current_votes |-> current_votes,
     last_night_actions |-> night_actions]

is_voting_complete ==
    Cardinality(DOMAIN current_votes) >= Len(get_living_players)

\* the answers of get_leading_vote_candidate: with equal counts most_common
\* returns the one counted first, which depends on the order of the dict
get_leading_vote_candidate ==
    IF current_votes = EmptyDict
    THEN {None}
    ELSE Candidates(VoteCounts(current_votes))

\* Query that forgets the votes it looked at
QueryResettingVotes(method, answers) ==
    /\ \E value \in answers : ret' = [op |-> method, value |-> value]
    /\ current_votes' = EmptyDict
    /\ UNCHANGED <<default_player_count, players, current_phase, current_round,
                   night_actions>>

\* a call of a method that assigns no field: only its result is new
Query(method, answers) ==
    /\ \E value \in answers : ret' = [op |-> method, value |-> value]
    /\ UNCHANGED <<default_player_count, players, current_phase, current_round,
                   current_votes, night_actions>>

----------------------------------------------------------------------------
(* utils.py: VoteCounter keeps the vote of each voter and a Counter of the
   votes each target has *)

\* VoteCounter.__init__
VoteCounter == [votes |-> EmptyDict, vote_counts |-> EmptyDict]

\* Counter.__getitem__: the count of a target, zero for a target without entry
CountOf(vote_counts, target) ==
    IF target \in DOMAIN vote_counts THEN vote_counts[target] ELSE 0

\* vote_counts[target] += 1
Increment(vote_counts, target) ==
    [t \in DOMAIN vote_counts \cup {target} |->
        IF t = target THEN CountOf(vote_counts, target) + 1 ELSE vote_counts[t]]

\* vote_counts[target] -= 1, and the entry is deleted when it is not positive
Decrement(vote_counts, target) ==
    LET count == CountOf(vote_counts, target) - 1
    IN  IF count <= 0
        THEN [t \in DOMAIN vote_counts \ {target} |-> vote_counts[t]]
        ELSE [t \in DOMAIN vote_counts \cup {target} |->
                 IF t = target THEN count ELSE vote_counts[t]]

\* add_vote that does not take the voter's previous vote back
add_vote_keeping_old(c, voter, target) ==
    [votes |-> [v \in DOMAIN c.votes \cup {voter} |->
                   IF v = voter THEN target ELSE c.votes[v]],
     vote_counts |-> Increment(c.vote_counts, target)]

\* VoteCounter.add_vote
add_vote(c, voter, target) ==
    LET vote_counts == IF voter \in DOMAIN c.votes
                       THEN Decrement(c.vote_counts, c.votes[voter])
                       ELSE c.vote_counts
    IN  [votes |-> [v \in DOMAIN c.votes \cup {voter} |->
                       IF v = voter THEN target ELSE c.votes[v]],
         vote_counts |-> Increment(vote_counts, target)]

\* VoteCounter.remove_vote
remove_vote(c, voter) ==
    IF voter \in DOMAIN c.votes
    THEN [votes |-> [v \in DOMAIN c.votes \ {voter} |-> c.votes[v]],
          vote_counts |-> Decrement(c.vote_counts, c.votes[voter])]
    ELSE c

\* VoteCounter.clear
clear(c) == [votes |-> EmptyDict, vote_counts |-> EmptyDict]

\* VoteCounter.get_total_votes
get_total_votes(c) == Cardinality(DOMAIN c.votes)

\* VoteCounter.get_tied_candidates; the list as a set
get_tied_candidates(c) ==
    IF DOMAIN c.vote_counts = {} THEN {}
    ELSE LET max_votes == CHOOSE n \in {c.vote_counts[t] : t \in DOMAIN c.vote_counts} :
                              \A t \in DOMAIN c.vote_counts : c.vote_counts[t] <= n
         IN  {t \in DOMAIN c.vote_counts : c.vote_counts[t] = max_votes}

----------------------------------------------------------------------------
(* The engine driven through its entry points by an arbitrary caller *)

\* a name no player has
Stranger == "Mallory"
\* the abstention sentinel the agents answer with (ai_agents.py)
NoVote == "no_vote"

\* the player counts the game is explored with: setup_game accepts every count
\* (nothing on its path calls validate_configuration), and the resolutions treat
\* the players alike whatever their number
GameCounts == {3}

\* the smallest supported game, for the first day of a game
TallyCounts == {min_players}

\* the player counts role assignment is explored with
SetupCounts == 0 .. max_players + 1

PlayerNames == {players[i].name : i \in DOMAIN players}

NightTargets == PlayerNames \cup {None, Stranger}
Voters == PlayerNames \cup {Stranger}
VoteTargets == PlayerNames \cup {Stranger, NoVote}

\* every vote map of the given voters for the given targets, partial ones included
VoteMaps(voters, targets) == UNION { [vs -> targets] : vs \in SUBSET voters }

\* the empty map and every map of a single vote
SingleVotes(voters, targets) ==
    UNION { [vs -> targets] : vs \in {s \in SUBSET voters : Cardinality(s) <= 1} }

\* the threads in which the web server runs the turns of simultaneous requests
Threads == {1, 2}

\* a thread that is carrying out no turn
Idle == [pc |-> "idle"]

Snapshot == [players |-> players, round |-> current_round, phase |-> current_phase]

\* MafiaGame.__init__ under a configuration with one of the given player counts
Construct(counts) ==
    /\ default_player_count \in counts
    /\ players = <<>>
    /\ current_phase = SETUP
    /\ current_round = 0
    /\ current_votes = EmptyDict
    /\ night_actions = EmptyDict
    /\ ret = [op |-> "__init__"]
    /\ calls = 0
    /\ before = Snapshot
    /\ days = 0
    /\ electorate = 0
    /\ turns = [t \in Threads |-> Idle]
    /\ game_history = <<>>
    /\ counter = VoteCounter
    /\ investigation_results = EmptyDict
    /\ sim = [pc |-> "start"]

SetupGame ==
    /\ current_phase = SETUP
    /\ setup_game
    /\ UNCHANGED <<calls, days, electorate, turns,
                   game_history>>
    /\ UNCHANGED beside
    /\ before' = Snapshot

\* a resolution is called: the caller's bookkeeping
Called ==
    /\ current_phase # SETUP
    /\ calls < MaxCalls
    /\ calls' = calls + 1
    /\ before' = Snapshot
    /\ UNCHANGED beside

\* a resolution is requested by a caller that runs one turn at a time
Requested == Called /\ UNCHANGED <<turns, game_history>>

\* a night resolution is requested
NightRequested == Requested /\ UNCHANGED <<days, electorate>>

\* a day resolution is requested of votes collected now
DayRequested ==
    /\ Requested
    /\ days' = days + 1
    /\ electorate' = Len(get_living_players)

\* a night resolution with arbitrary targets
NightResolution ==
    /\ NightRequested
    /\ \E mafia_target, doctor_save, detective_investigation \in NightTargets :
           process_night_actions(mafia_target, doctor_save, detective_investigation)

\* a night resolution in which only the mafia acts
NightKillOnly ==
    /\ NightRequested
    /\ \E mafia_target \in NightTargets : process_night_actions(mafia_target, None, None)

\* a day resolution with at most one vote, from anybody for anything
DaySingleVote ==
    \E votes \in SingleVotes(Voters, VoteTargets) :
        DayRequested /\ process_day_voting(votes)

\* a day resolution with any votes of the players, dead ones included
DayVoting ==
    /\ current_round < MaxRound
    /\ \E votes \in VoteMaps(PlayerNames, VoteTargets) :
           DayRequested /\ process_day_voting(votes)

Init == Construct(GameCounts)

Next == SetupGame \/ NightResolution \/ DaySingleVote

\* the engine under arbitrary night actions
Spec == Init /\ [][Next]_vars

NextDay == SetupGame \/ NightKillOnly \/ DayVoting

\* the engine under arbitrary votes
SpecDay == Init /\ [][NextDay]_vars

\* the first resolution of a game, a day with any votes of the players
FirstDay ==
    /\ calls = 0
    /\ \E votes \in VoteMaps(PlayerNames, VoteTargets) :
           DayRequested /\ process_day_voting(votes)

\* the tally of one day in a game of the smallest supported size
SpecTally == Construct(TallyCounts) /\ [][SetupGame \/ FirstDay]_vars

\* setup alone, for every configured player count
SpecSetup == Construct(SetupCounts) /\ [][SetupGame]_vars

\* a night resolution requested of a game that was never set up
EarlyNight ==
    /\ current_phase = SETUP
    /\ calls < MaxCalls
    /\ calls' = calls + 1
    /\ before' = Snapshot
    /\ UNCHANGED beside
    /\ UNCHANGED <<days, electorate, turns,
                   game_history>>
    /\ \E mafia_target, doctor_save, detective_investigation \in NightTargets :
           process_night_actions(mafia_target, doctor_save, detective_investigation)

\* the engine under a caller that may skip the setup
SpecEarly == Init /\ [][Next \/ EarlyNight]_vars

\* the five players of the end-to-end scenario
p1 == default_players[1]
p2 == default_players[2]
p3 == default_players[3]
p4 == default_players[4]
p5 == default_players[5]

\* the roles the scenario gives p1..p5
ScenarioRoles == <<MAFIA, DOCTOR, DETECTIVE, TOWNSPERSON, TOWNSPERSON>>

\* the votes of the scenario's day 1
ScenarioVotes == [v \in {p1, p2, p3, p4, p5} |-> IF v = p1 THEN p2 ELSE p1]

\* a 5-player game as setup_game leaves it, with the roles of an assignment
\* or with those of the scenario in any order; the scenario's roles are
\* written to the player records, assign_roles gives five players no detective
ScenarioInit ==
    /\ default_player_count = 5
    /\ players \in { ZipRoles([i \in 1..5 |-> Player(default_players[i])], roles) :
                         roles \in Shuffle(RolePool(5)) \cup Shuffle(ScenarioRoles) }
    /\ current_phase = NIGHT
    /\ current_round = 1
    /\ current_votes = EmptyDict
    /\ night_actions = EmptyDict
    /\ ret = [op |-> "setup_game"]
    /\ calls = 0
    /\ before = Snapshot
    /\ days = 0
    /\ electorate = 0
    /\ turns = [t \in Threads |-> Idle]
    /\ game_history = <<>>
    /\ counter = VoteCounter
    /\ investigation_results = EmptyDict
    /\ sim = [pc |-> "start"]

\* night 1 of the scenario
ScenarioNight ==
    /\ calls = 0
    /\ NightRequested
    /\ process_night_actions(p4, p4, p1)

\* day 1 of the scenario
ScenarioDay ==
    /\ calls = 1
    /\ DayRequested
    /\ process_day_voting(ScenarioVotes)

\* the two resolutions of the end-to-end scenario
SpecScenario == ScenarioInit /\ [][ScenarioNight \/ ScenarioDay]_vars

\* the caller leaves its own bookkeeping alone while it asks
Asked ==
    /\ current_phase # SETUP
    /\ UNCHANGED <<calls, before, days, electorate, turns,
                   game_history>>
    /\ UNCHANGED beside

AskIsGameOver == Asked /\ Query("is_game_over", {is_game_over})
AskWinner == Asked /\ Query("get_winner", {get_winner})
AskGameState == Asked /\ Query("get_game_state", {get_game_state})
AskLivingPlayers == Asked /\ Query("get_living_players", {get_living_players})
AskDeadPlayers == Asked /\ Query("get_dead_players", {get_dead_players})
AskVotingComplete == Asked /\ Query("is_voting_complete", {is_voting_complete})
AskLeadingCandidate ==
    Asked /\ Query("get_leading_vote_candidate", get_leading_vote_candidate)

QueryOps ==
    {"is_game_over", "get_winner", "get_game_state", "get_living_players",
     "get_dead_players", "is_voting_complete", "get_leading_vote_candidate"}

NextQueries ==
    \/ SetupGame \/ NightKillOnly \/ DaySingleVote
    \/ AskIsGameOver \/ AskWinner \/ AskGameState \/ AskLivingPlayers
    \/ AskDeadPlayers \/ AskVotingComplete \/ AskLeadingCandidate

\* the engine under a caller that also asks for its state
SpecQueries == Init /\ [][NextQueries]_vars

\* the player count a repeated role assignment is explored with
RolesCounts == {min_players}

\* assign_roles called once more on a game that was just set up
AssignRolesAgain ==
    /\ ret.op = "setup_game"
    /\ assign_roles
    /\ before' = Snapshot
    /\ UNCHANGED <<calls, days, electorate, turns,
                   game_history>>
    /\ UNCHANGED beside

\* setup followed by a second role assignment
SpecRoles == Construct(RolesCounts) /\ [][SetupGame \/ AssignRolesAgain]_vars

----------------------------------------------------------------------------
(* mcp_server.py: submit_action hands an action to the game *)

\* the action types a request names; handle_submit_action refuses an empty one
ActionTypes == {"kill", "vote"}

\* MafiaMCPServer.handle_submit_action with a player name and an action type
SubmitAction ==
    /\ calls < MaxCalls
    /\ calls' = calls + 1
    /\ before' = Snapshot
    /\ UNCHANGED <<days, electorate, turns,
                   game_history>>
    /\ UNCHANGED beside
    /\ \E player_name \in Voters, action_type \in ActionTypes,
          target \in {None, Stranger} \cup PlayerNames :
           submit_player_action(player_name, action_type, target)

\* the engine under a caller that also submits actions of players
SpecActions ==
    Init /\ [][SetupGame \/ NightKillOnly \/ DaySingleVote \/ SubmitAction]_vars

----------------------------------------------------------------------------
(* ai_agents.py, turn_based_game.py: the agents choose the night targets and
   the votes, and the turn-based driver hands them to the engine.  What an
   agent answers depends on a language model, so each choice is any of the
   answers its code can return. *)

\* the player count the driven game is explored with
DriverCounts == {4}

NamesOf(ps) == {ps[i].name : i \in DOMAIN ps}

\* AgentManager.get_mafia_target: the answers of MafiaAgent.choose_target
get_mafia_target ==
    IF get_mafia_members = <<>> \/ get_townspeople = <<>>
    THEN {None}
    ELSE NamesOf(get_townspeople)

\* AgentManager.get_doctor_save: the answers of DoctorAgent.choose_save_target
get_doctor_save ==
    IF get_doctor = None THEN {None} ELSE NamesOf(get_living_players)

\* AgentManager.get_detective_investigation: the answers of
\* DetectiveAgent.choose_investigation_target
get_detective_investigation ==
    IF get_detective = None
    THEN {None}
    ELSE (NamesOf(get_living_players)
              \ ({get_detective} \cup DOMAIN investigation_results))
         \cup {None}

\* the vote maps whose voters are among these, none voting for itself
BallotsOf(voters) ==
    UNION { {votes \in [vs -> NamesOf(get_living_players) \cup {NoVote}] :
                \A v \in vs : votes[v] # v} : vs \in SUBSET voters }

\* conduct_voting asking every player, the dead ones too
conduct_voting_of_all == BallotsOf(PlayerNames)

\* AgentManager.conduct_voting: each living player's agent is asked once; an
\* empty answer or an exception leaves that player out of the map
conduct_voting == BallotsOf(NamesOf(get_living_players))

\* MafiaGameSimulation.run_night_phase
run_night_phase ==
    /\ NightRequested
    /\ \E mafia_target \in get_mafia_target, doctor_save \in get_doctor_save,
          detective_investigation \in get_detective_investigation :
           process_night_actions(mafia_target, doctor_save, detective_investigation)

\* MafiaGameSimulation.run_day_phase
run_day_phase ==
    \E votes \in conduct_voting : DayRequested /\ process_day_voting(votes)

\* the entry of a turn in game_history, written after the resolution: the
\* phase of the turn and game.current_round - 1
TurnData(phase) == [phase |-> phase, round |-> current_round' - 1]

\* TurnBasedMafiaGame._execute_night_phase
execute_night_phase ==
    /\ Called
    /\ UNCHANGED <<turns, days, electorate>>
    /\ \E mafia_target \in get_mafia_target, doctor_save \in get_doctor_save,
          detective_investigation \in get_detective_investigation :
           process_night_actions(mafia_target, doctor_save, detective_investigation)
    /\ game_history' = Append(game_history, TurnData("night"))

\* TurnBasedMafiaGame._execute_day_phase
execute_day_phase ==
    /\ Called
    /\ UNCHANGED turns
    /\ days' = days + 1
    /\ electorate' = Len(get_living_players)
    /\ \E votes \in conduct_voting : process_day_voting(votes)
    /\ game_history' = Append(game_history, TurnData("day"))

NightTurn == ~is_game_over /\ current_phase = NIGHT /\ execute_night_phase

DayTurn == ~is_game_over /\ current_phase = DAY /\ execute_day_phase

\* the turn of a game that is over: an error is returned, nothing is done
OverTurn ==
    /\ current_phase # SETUP
    /\ is_game_over
    /\ ret' = [op |-> "execute_next_turn",
               value |-> [error |-> "Game is already over"]]
    /\ before' = Snapshot
    /\ UNCHANGED <<default_player_count, players, current_phase, current_round,
                   current_votes, night_actions, calls, days, electorate, turns,
                   game_history>>
    /\ UNCHANGED beside

\* TurnBasedMafiaGame.execute_next_turn
execute_next_turn == OverTurn \/ NightTurn \/ DayTurn

\* MafiaGameSimulation.run_simulation: the night of the loop, entered from the
\* loop head after setup or after a day
SimNight ==
    /\ ret.op \in {"setup_game", "process_day_voting"}
    /\ ~is_game_over
    /\ run_night_phase

\* MafiaGameSimulation.run_simulation: the day of the loop, after its night
SimDay ==
    /\ ret.op = "process_night_actions"
    /\ ~is_game_over
    /\ run_day_phase

\* the player counts the drivers are explored with
StopCounts == GameCounts \cup DriverCounts

\* the engine under the steps of either driver
SpecDrivers ==
    Construct(StopCounts)
    /\ [][SetupGame \/ OverTurn \/ NightTurn \/ DayTurn \/ SimNight \/ SimDay]_vars

NextTurns == SetupGame \/ NightTurn \/ DayTurn

\* the smallest game that has a detective
DetectiveCounts == {6}

\* the first night of a game with a detective under the turn-based driver
SpecDetective == Construct(DetectiveCounts) /\ [][SetupGame \/ NightTurn]_vars

\* the engine as the turn-based driver runs it
SpecTurns == Construct(DriverCounts) /\ [][NextTurns]_vars

----------------------------------------------------------------------------
(* main.py: run_simulation sets the game up and runs nights and days in a loop
   that it leaves when the game is over or when its round counter passes a
   cap.  sim.pc is the place the coroutine stands at: "start" before
   initialize_game, "head" at the loop condition, "night" after
   run_night_phase, "done" after the loop. *)

\* the cap on game_round in run_simulation
RoundCap == 50

\* the player count the simulation is explored with: the smallest supported
\* game, which has a doctor
SimCounts == {min_players}

\* the answers of the agents on a day of the simulation: in the iterations
\* before MaxRound no agent answers or all name the same living player, who
\* names nobody; after that no agent answers
SimBallots ==
    IF sim.game_round < MaxRound
    THEN {EmptyDict} \cup
         {[v \in NamesOf(get_living_players) \ {target} |-> target] :
              target \in NamesOf(get_living_players)}
    ELSE {EmptyDict}

\* a call made by run_simulation, which keeps its own count of the rounds
SimCalled ==
    /\ before' = Snapshot
    /\ UNCHANGED <<calls, days, electorate, turns, game_history, counter,
                   investigation_results>>

\* initialize_game, and game_round = 1
SimSetup ==
    /\ sim.pc = "start"
    /\ current_phase = SETUP
    /\ setup_game
    /\ before' = Snapshot
    /\ sim' = [pc |-> "head", game_round |-> 1]
    /\ UNCHANGED <<calls, days, electorate, turns, game_history, counter,
                   investigation_results>>

\* the loop is left at its condition or at the check after the night
SimLeave ==
    /\ sim.pc \in {"head", "night"}
    /\ is_game_over
    /\ sim' = [sim EXCEPT !.pc = "done"]
    /\ UNCHANGED <<default_player_count, players, current_phase, current_round,
                   current_votes, night_actions, ret, calls, before, days,
                   electorate, turns, game_history, counter,
                   investigation_results>>

\* run_night_phase in the loop
SimNightPhase ==
    /\ sim.pc = "head"
    /\ ~is_game_over
    /\ SimCalled
    /\ \E mafia_target \in get_mafia_target, doctor_save \in get_doctor_save,
          detective_investigation \in get_detective_investigation :
           process_night_actions(mafia_target, doctor_save, detective_investigation)
    /\ sim' = [sim EXCEPT !.pc = "night"]

\* the end of an iteration that does not count it
SimIterationUncounted == [sim EXCEPT !.pc = "head"]

\* the end of an iteration: game_round += 1, and the loop is left when
\* game_round > 50
SimIteration ==
    [pc |-> IF sim.game_round + 1 > RoundCap THEN "done" ELSE "head",
     game_round |-> sim.game_round + 1]

\* run_day_phase in the loop, up to the end of the iteration
SimDayPhase ==
    /\ sim.pc = "night"
    /\ ~is_game_over
    /\ SimCalled
    /\ \E votes \in SimBallots : process_day_voting(votes)
    /\ sim' = SimIteration

SimNext == SimSetup \/ SimLeave \/ SimNightPhase \/ SimDayPhase

\* run_simulation
SpecSim == Construct(SimCounts) /\ [][SimNext]_vars

\* run_simulation as the event loop runs it: the coroutine is resumed whenever
\* it can go on
SpecSimFair == SpecSim /\ WF_vars(SimNext)

----------------------------------------------------------------------------
(* web_server.py: the server handles simultaneous requests in threads of their
   own (app.run(threaded=True)), and each next_turn request runs
   execute_next_turn on the one shared game in a further thread with an event
   loop of its own; nothing locks the game.  A turn waits for the agents'
   answers between its look at the game and its call of the resolution, and
   that is where another thread's turn can run.  The turn of a thread is two
   steps here: the look and the collection of the answers, then the
   resolution. *)

\* execute_next_turn in thread t up to the call of process_night_actions
BeginNight(t) ==
    /\ turns[t] = Idle
    /\ calls < MaxCalls
    /\ ~is_game_over
    /\ current_phase = NIGHT
    /\ \E mafia_target \in get_mafia_target, doctor_save \in get_doctor_save,
          detective_investigation \in get_detective_investigation :
           turns' = [turns EXCEPT ![t] =
                        [pc |-> "night",
                         mafia_target |-> mafia_target,
                         doctor_save |-> doctor_save,
                         detective_investigation |-> detective_investigation]]
    /\ UNCHANGED <<default_player_count, players, current_phase, current_round,
                   current_votes, night_actions, ret, calls, before, days,
                   electorate, game_history>>
    /\ UNCHANGED beside

\* the call of process_night_actions in thread t
ResolveNight(t) ==
    /\ turns[t].pc = "night"
    /\ Called
    /\ process_night_actions(turns[t].mafia_target, turns[t].doctor_save,
                             turns[t].detective_investigation)
    /\ turns' = [turns EXCEPT ![t] = Idle]
    /\ UNCHANGED <<days, electorate>>
    /\ game_history' = Append(game_history, TurnData("night"))

\* execute_next_turn in thread t up to the call of process_day_voting
BeginDay(t) ==
    /\ turns[t] = Idle
    /\ calls < MaxCalls
    /\ ~is_game_over
    /\ current_phase = DAY
    /\ \E votes \in conduct_voting :
           turns' = [turns EXCEPT ![t] =
                        [pc |-> "day", votes |-> votes,
                         living |-> Len(get_living_players)]]
    /\ UNCHANGED <<default_player_count, players, current_phase, current_round,
                   current_votes, night_actions, ret, calls, before, days,
                   electorate, game_history>>
    /\ UNCHANGED beside

\* the call of process_day_voting in thread t
ResolveDay(t) ==
    /\ turns[t].pc = "day"
    /\ Called
    /\ process_day_voting(turns[t].votes)
    /\ turns' = [turns EXCEPT ![t] = Idle]
    /\ days' = days + 1
    /\ electorate' = turns[t].living
    /\ game_history' = Append(game_history, TurnData("day"))

NightBegins == \E t \in Threads : BeginNight(t)
NightResolves == \E t \in Threads : ResolveNight(t)
DayBegins == \E t \in Threads : BeginDay(t)
DayResolves == \E t \in Threads : ResolveDay(t)

NextWeb ==
    \/ SetupGame \/ OverTurn
    \/ NightBegins \/ NightResolves \/ DayBegins \/ DayResolves

\* the engine under the turns of simultaneous next_turn requests
SpecWeb == Construct(StopCounts) /\ [][NextWeb]_vars

----------------------------------------------------------------------------
(* web_server.py: three simultaneous next_turn requests on one day.  The game
   is a 5-player game whose first three turns are run one at a time; the
   requests arrive on the day of round 2, when three players are alive. *)

\* the threads of the three requests
Crowd == {1, 2, 3}

\* the turns requested of that game: three run alone, the rest at once
MaxCrowd == 6

\* a 5-player game as setup_game leaves it when the shuffle leaves the pool
\* of roles in its order: p1 Mafia, p2 Doctor, p3, p4 and p5 Townspeople
CrowdInit ==
    /\ default_player_count = 5
    /\ players = ZipRoles([i \in 1..5 |-> Player(default_players[i])], RolePool(5))
    /\ current_phase = NIGHT
    /\ current_round = 1
    /\ current_votes = EmptyDict
    /\ night_actions = EmptyDict
    /\ ret = [op |-> "setup_game"]
    /\ calls = 0
    /\ before = Snapshot
    /\ days = 0
    /\ electorate = 0
    /\ turns = [t \in Crowd |-> Idle]
    /\ game_history = <<>>
    /\ counter = VoteCounter
    /\ investigation_results = EmptyDict
    /\ sim = [pc |-> "start"]

\* a resolution is called in one of these turns
CrowdCalled ==
    /\ calls < MaxCrowd
    /\ calls' = calls + 1
    /\ before' = Snapshot
    /\ UNCHANGED beside

\* execute_next_turn in a night, run alone, with these answers of the agents
QuietNight(mafia_target, doctor_save) ==
    /\ \A t \in Crowd : turns[t] = Idle
    /\ ~is_game_over
    /\ current_phase = NIGHT
    /\ mafia_target \in get_mafia_target
    /\ doctor_save \in get_doctor_save
    /\ None \in get_detective_investigation
    /\ CrowdCalled
    /\ process_night_actions(mafia_target, doctor_save, None)
    /\ game_history' = Append(game_history, TurnData("night"))
    /\ UNCHANGED <<turns, days, electorate>>

\* execute_next_turn in a day, run alone, with these answers of the agents
QuietDay(votes) ==
    /\ \A t \in Crowd : turns[t] = Idle
    /\ ~is_game_over
    /\ current_phase = DAY
    /\ votes \in conduct_voting
    /\ CrowdCalled
    /\ process_day_voting(votes)
    /\ game_history' = Append(game_history, TurnData("day"))
    /\ days' = days + 1
    /\ electorate' = Len(get_living_players)
    /\ UNCHANGED turns

\* the first three turns: in night 1 the Mafia kill p5, on day 1 the others
\* vote p4 out, in night 2 the doctor saves the target p3
QuietTurns ==
    \/ calls = 0 /\ QuietNight(p5, p2)
    \/ calls = 1 /\ QuietDay([v \in {p1, p2, p3} |-> p4])
    \/ calls = 2 /\ QuietNight(p3, p3)

\* execute_next_turn in thread t up to the call of process_day_voting, on a
\* day on which at most one agent answers
CrowdBeginDay(t) ==
    /\ calls >= 3
    /\ calls < MaxCrowd
    /\ turns[t] = Idle
    /\ ~is_game_over
    /\ current_phase = DAY
    /\ \E votes \in {v \in conduct_voting : Cardinality(DOMAIN v) <= 1} :
           turns' = [turns EXCEPT ![t] =
                        [pc |-> "day", votes |-> votes,
                         living |-> Len(get_living_players)]]
    /\ UNCHANGED <<default_player_count, players, current_phase, current_round,
                   current_votes, night_actions, ret, calls, before, days,
                   electorate, game_history>>
    /\ UNCHANGED beside

\* the call of process_day_voting in thread t
CrowdResolveDay(t) ==
    /\ turns[t].pc = "day"
    /\ CrowdCalled
    /\ process_day_voting(turns[t].votes)
    /\ turns' = [turns EXCEPT ![t] = Idle]
    /\ days' = days + 1
    /\ electorate' = turns[t].living
    /\ game_history' = Append(game_history, TurnData("day"))

CrowdDayBegins == \E t \in Crowd : CrowdBeginDay(t)
CrowdDayResolves == \E t \in Crowd : CrowdResolveDay(t)

\* the engine under three simultaneous next_turn requests on one day
SpecCrowd ==
    CrowdInit /\ [][QuietTurns \/ CrowdDayBegins \/ CrowdDayResolves]_vars

----------------------------------------------------------------------------
(* utils.py: a VoteCounter under any sequence of its operations *)

\* the voters and the targets of the votes given to a VoteCounter
CounterVoters == {default_players[i] : i \in 1..4}
CounterTargets == CounterVoters \cup {NoVote}

\* the game and its callers, which no method of a VoteCounter touches
game == <<default_player_count, players, current_phase, current_round,
          current_votes, night_actions, calls, before, days, electorate, turns,
          game_history, investigation_results, sim>>

AddVote ==
    /\ \E voter \in CounterVoters, target \in CounterTargets :
           counter' = add_vote(counter, voter, target)
    /\ ret' = [op |-> "add_vote", value |-> None]
    /\ UNCHANGED game

RemoveVote ==
    /\ \E voter \in CounterVoters : counter' = remove_vote(counter, voter)
    /\ ret' = [op |-> "remove_vote", value |-> None]
    /\ UNCHANGED game

Clear ==
    /\ counter' = clear(counter)
    /\ ret' = [op |-> "clear", value |-> None]
    /\ UNCHANGED game

SpecCounter == Init /\ [][AddVote \/ RemoveVote \/ Clear]_vars

----------------------------------------------------------------------------
(* Properties *)

IsNight == ret.op = "process_night_actions"
IsDay == ret.op = "process_day_voting"

\* the player of that name in a list of players; only used when there is one
Named(ps, name) == ps[get_player_by_name(ps, name)]
Exists(ps, name) == \E i \in DOMAIN ps : ps[i].name = name
Living(ps, name) == \E i \in DOMAIN ps : ps[i].name = name /\ ps[i].is_alive

RoleCount(r) == Cardinality({i \in DOMAIN players : players[i].role = r})

\* C1: after setup with a supported player count N (5..12) there are
\* max(1, N div 4) Mafia, one Doctor, a Detective iff N >= 6, at least one
\* Townsperson, the four counts sum to N and every player holds a role.
C1_RoleDistribution ==
    (ret.op = "setup_game" /\ Len(players) \in min_players..max_players) =>
        LET N == Len(players)
        IN  /\ N = get_total_players
            /\ RoleCount(MAFIA) = (IF N \div 4 >= 1 THEN N \div 4 ELSE 1)
            /\ RoleCount(DOCTOR) = 1
            /\ RoleCount(DETECTIVE) = (IF N >= 6 THEN 1 ELSE 0)
            /\ RoleCount(TOWNSPERSON) =
                   N - RoleCount(MAFIA) - RoleCount(DOCTOR) - RoleCount(DETECTIVE)
            /\ RoleCount(TOWNSPERSON) >= 1
            /\ \A i \in DOMAIN players : players[i].role \in Role

C1_Witness ==
    /\ ret.op = "setup_game"
    /\ Len(players) = max_players
    /\ RoleCount(MAFIA) = 3
    /\ players[1].role = TOWNSPERSON

\* C2: a night whose mafia target names a living player leaves the target
\* alive with no death round and reports saved and no elimination when the
\* doctor saved that player; otherwise the target is dead, its death round is
\* the round of that night and it is reported as eliminated.
C2_KillOrSave ==
    (IsNight /\ Living(before.players, night_actions.mafia_target)) =>
        LET t == night_actions.mafia_target
            after == Named(players, t)
        IN  IF night_actions.doctor_save = t
            THEN /\ ret.value.saved
                 /\ ret.value.eliminated = None
                 /\ after.is_alive
                 /\ after.death_round = {}
            ELSE /\ ~after.is_alive
                 /\ after.death_round = {before.round}
                 /\ ret.value.eliminated = t

C2_Witness ==
    /\ IsNight
    /\ before.round = 2
    /\ ret.value.eliminated # None
    /\ night_actions.doctor_save # night_actions.mafia_target
    /\ Living(before.players, night_actions.doctor_save)

\* C3: a night whose mafia target names nobody or a dead player changes no
\* alive flag and no death round, reports no elimination and no save, whatever
\* the doctor chose, and still ends in the Day phase.
C3_StaleTargetIgnored ==
    (/\ IsNight
     /\ night_actions.mafia_target # None
     /\ ~Living(before.players, night_actions.mafia_target)) =>
        /\ Len(players) = Len(before.players)
        /\ \A i \in DOMAIN players :
               /\ players[i].is_alive = before.players[i].is_alive
               /\ players[i].death_round = before.players[i].death_round
        /\ ret.value.eliminated = None
        /\ ret.value.saved = FALSE
        /\ current_phase = DAY

C3_Witness ==
    /\ IsNight
    /\ Exists(before.players, night_actions.mafia_target)
    /\ ~Living(before.players, night_actions.mafia_target)
    /\ night_actions.doctor_save = night_actions.mafia_target

\* the players the last call turned from alive to dead
Flipped ==
    {i \in DOMAIN players : before.players[i].is_alive /\ ~players[i].is_alive}

\* C4: one night resolution and one day resolution each turn at most one
\* player from alive to dead.
C4_AtMostOneElimination ==
    (IsNight \/ IsDay) =>
        /\ Len(players) = Len(before.players)
        /\ Cardinality(Flipped) <= 1

C4_Witness ==
    /\ IsDay
    /\ Cardinality(DOMAIN ret.value.votes) >= 2
    /\ Cardinality(Flipped) = 1

\* the number of votes of the last day for a target, counted from the vote map
Tally(t) == Cardinality({v \in DOMAIN current_votes : current_votes[v] = t})

\* C5: the target a day eliminates received at least one vote and no target
\* received more votes than it.
C5_EliminatedHoldsMaximum ==
    (IsDay /\ ret.value.eliminated # None) =>
        /\ Tally(ret.value.eliminated) >= 1
        /\ \A u \in VoteTargets : Tally(u) <= Tally(ret.value.eliminated)

\* the counts {A: 2, B: 2, C: 1}: one of the tied two is eliminated
C5_Witness ==
    /\ IsDay
    /\ Tally(ret.value.eliminated) = 2
    /\ \E u, w \in VoteTargets :
           /\ u # ret.value.eliminated
           /\ Tally(u) = 2
           /\ Tally(w) = 1

\* C6: the counts of a day are the votes of the players alive when the day
\* started, so every counted target has a living voter.
C6_OnlyLivingVotesCount ==
    IsDay =>
        \A t \in DOMAIN ret.value.votes :
            ret.value.votes[t] =
                Cardinality({v \in DOMAIN current_votes :
                                current_votes[v] = t /\ Living(before.players, v)})

\* C7: the abstention sentinel is never a counted target and is never the
\* eliminated target.
C7_AbstentionsExcluded ==
    IsDay =>
        /\ NoVote \notin DOMAIN ret.value.votes
        /\ ret.value.eliminated # NoVote

\* C8: the target a day reports as eliminated is a player who was alive when
\* the day started and is now dead with that day's round as death round.
C8_EliminatedWasLivingPlayer ==
    (IsDay /\ ret.value.eliminated # None) =>
        /\ Living(before.players, ret.value.eliminated)
        /\ ~Named(players, ret.value.eliminated).is_alive
        /\ Named(players, ret.value.eliminated).death_round = {before.round}

\* C9: a day with an empty vote map reports no elimination with the reason
\* "No votes cast" and leaves every player as it was.
C9_NoVotesNoMutation ==
    (IsDay /\ current_votes = EmptyDict) =>
        /\ ret.value.eliminated = None
        /\ ret.value.reason = "No votes cast"
        /\ players = before.players

C9_Witness ==
    /\ IsDay
    /\ current_votes = EmptyDict
    /\ \E i \in DOMAIN players : ~players[i].is_alive

\* C10: a day with an empty vote map still moves the phase to Night and adds
\* one to the round.
C10_EmptyDayAdvances ==
    (IsDay /\ current_votes = EmptyDict) =>
        /\ current_phase = NIGHT
        /\ current_round = before.round + 1

\* C11: a night resolution leaves the round as it was, the Day -> Night
\* transition at the end of a day resolution adds exactly one, and the round
\* is always one more than the number of day resolutions carried out.
C11_RoundCounter ==
    /\ IsNight => current_round = before.round
    /\ (IsDay /\ before.phase = DAY /\ current_phase = NIGHT) =>
           current_round = before.round + 1
    /\ current_phase # SETUP => current_round = 1 + days

\* the living Mafia and the living others, counted from the player records
LivingMafia(ps) == Cardinality({i \in DOMAIN ps : ps[i].is_alive /\ ps[i].role = MAFIA})
LivingOthers(ps) == Cardinality({i \in DOMAIN ps : ps[i].is_alive /\ ps[i].role # MAFIA})
Over(ps) == LivingMafia(ps) >= LivingOthers(ps) \/ LivingMafia(ps) = 0

\* C12: the game is over iff the living Mafia are at least as many as the
\* living others or none is left; the winner is "Mafia" in the first case,
\* else "Townspeople" in the second, else none, and is none iff the game is
\* not over.
C12_WinEvaluation ==
    /\ is_game_over <=> Over(players)
    /\ get_winner = (IF LivingMafia(players) >= LivingOthers(players) THEN "Mafia"
                     ELSE IF LivingMafia(players) = 0 THEN "Townspeople"
                     ELSE None)
    /\ get_winner = None <=> ~is_game_over

C12_Witness ==
    /\ IsNight
    /\ ~Over(before.players)
    /\ LivingMafia(players) = 1
    /\ LivingOthers(players) = 1
    /\ get_winner = "Mafia"

\* the last call left players, phase and round as they were
Rejected ==
    /\ players = before.players
    /\ current_phase = before.phase
    /\ current_round = before.round

\* C13: once the win condition holds the phase is GameOver, and a night or
\* day resolution requested after that leaves players, phase and round
\* unchanged.
C13_GameOverLatched ==
    /\ (current_phase # SETUP /\ is_game_over) => current_phase = GAME_OVER
    /\ ((IsNight \/ IsDay) /\ Over(before.players)) => Rejected

\* C14: a night resolution is carried out only in phase Night and a day
\* resolution only in phase Day; requested in another phase it changes
\* nothing, so the phase moves only Night -> Day, Day -> Night or to GameOver.
C14_PhaseOrder ==
    /\ (IsNight /\ before.phase # NIGHT) => Rejected
    /\ (IsDay /\ before.phase # DAY) => Rejected
    /\ (IsNight \/ IsDay) =>
           \/ current_phase = before.phase /\ current_round = before.round
           \/ before.phase = NIGHT /\ current_phase = DAY
           \/ before.phase = DAY /\ current_phase = NIGHT
           \/ current_phase = GAME_OVER

\* C15: a resolution never revives a dead player and never changes the death
\* round of a player who was already dead.
C15_DeathIsFinal ==
    (IsNight \/ IsDay) =>
        \A i \in DOMAIN before.players :
            ~before.players[i].is_alive =>
                /\ ~players[i].is_alive
                /\ players[i].death_round = before.players[i].death_round

\* C16: a player is dead iff its death round is set.
C16_DeadIffDeathRound ==
    \A i \in DOMAIN players : ~players[i].is_alive <=> players[i].death_round # {}

C16_Witness ==
    /\ IsDay
    /\ \E i, j \in DOMAIN players :
           /\ players[i].death_round = {1}
           /\ players[j].death_round = {2}
           /\ before.players[j].is_alive

\* the voting history of a player is the old one followed by the entries
IsExtension(new, old, entries) == new = old \o entries

C18_VotesCleared ==
    current_phase = NIGHT => current_votes = EmptyDict

C20_InvestigationIndependent ==
    IsNight =>
        LET mt == night_actions.mafia_target
            ds == night_actions.doctor_save
            di == night_actions.detective_investigation
            hit == Living(before.players, mt)
        IN  /\ ret.value.investigation_result =
                   (IF Exists(before.players, di)
                    THEN {[target |-> di,
                           is_mafia |-> Named(before.players, di).role = MAFIA]}
                    ELSE {})
            /\ ret.value.eliminated = (IF hit /\ ds # mt THEN mt ELSE None)
            /\ ret.value.saved = (hit /\ ds = mt)
            /\ \A i \in DOMAIN players :
                   players[i].is_alive =
                       (before.players[i].is_alive
                        /\ ~(players[i].name = mt /\ ds # mt))

\* the detective investigates a dead Mafia player while somebody else is killed
C20_Witness ==
    /\ IsNight
    /\ ret.value.eliminated # None
    /\ ret.value.eliminated # night_actions.detective_investigation
    /\ ~Living(before.players, night_actions.detective_investigation)
    /\ ret.value.investigation_result =
           {[target |-> night_actions.detective_investigation, is_mafia |-> TRUE]}

\* C21: a second role assignment changes no player's role.
C21_RolesAssignedOnce ==
    ret.op = "assign_roles" =>
        \A i \in DOMAIN players : players[i].role = before.players[i].role

\* the configured player count is unsupported or leaves no townsperson
Unsupported ==
    \/ get_total_players < min_players
    \/ get_total_players > max_players
    \/ Count(RolePool(get_total_players), TOWNSPERSON) < 1

\* C22: setup with an unsupported player count does not start the game: the
\* phase stays Setup, the round stays unset and no role is assigned.
C22_InvalidSetupRejected ==
    (ret.op = "setup_game" /\ Unsupported) =>
        /\ current_phase = SETUP
        /\ current_round = 0
        /\ \A i \in DOMAIN players : players[i].role = None

\* C25 as claimed: a 5-player game is assigned one Mafia, one Doctor, one
\* Detective and two Townspeople (the counts are fixed by the player count,
\* only their order is random, so what can be produced is what is produced).
C25_ScenarioRolesAtFive ==
    (ret.op = "setup_game" /\ Len(players) = 5) =>
        /\ RoleCount(MAFIA) = 1
        /\ RoleCount(DOCTOR) = 1
        /\ RoleCount(DETECTIVE) = 1
        /\ RoleCount(TOWNSPERSON) = 2

\* C25 as amended: a 5-player game is assigned one Mafia, one Doctor and
\* three Townspeople, and no Detective.
C25_RolesAtFive ==
    (ret.op = "setup_game" /\ Len(players) = 5) =>
        /\ RoleCount(MAFIA) = 1
        /\ RoleCount(DOCTOR) = 1
        /\ RoleCount(DETECTIVE) = 0
        /\ RoleCount(TOWNSPERSON) = 3

\* the scenario's assignment but for the detective
C25_Witness ==
    /\ ret.op = "setup_game"
    /\ Len(players) = 5
    /\ players[1].role = MAFIA
    /\ players[2].role = DOCTOR
    /\ players[3].role = TOWNSPERSON

\* C23: setup_game leaves the phase Night, the round 1 and every player
\* alive, with no death round, an empty vote history and a role; and no night
\* resolution is carried out before that.
C23_SetupThenNight ==
    /\ ret.op = "setup_game" =>
           /\ current_phase = NIGHT
           /\ current_round = 1
           /\ \A i \in DOMAIN players :
                  /\ players[i].is_alive
                  /\ players[i].death_round = {}
                  /\ players[i].voting_history = <<>>
                  /\ players[i].role \in Role
    /\ IsNight => before.phase # SETUP

\* p1 is the Mafia of the game
ScenarioPremise ==
    /\ Len(players) = 5
    /\ \A i \in DOMAIN players : players[i].role = MAFIA <=> i = 1

\* C24: with p1 the only Mafia, night 1 (target p4, save p4, investigate p1)
\* saves p4, eliminates nobody and reports p1 as Mafia, in round 1 with the
\* phase Day after it; day 1 then counts {p1: 4, p2: 1}, eliminates p1 with
\* role Mafia, leaves round 2 and phase Night, and the game is over with
\* winner "Townspeople".
C24_EndToEnd ==
    ScenarioPremise =>
        /\ IsNight =>
               /\ ret.value = [eliminated |-> None, saved |-> TRUE,
                               investigation_result |->
                                   {[target |-> p1, is_mafia |-> TRUE]}]
               /\ \A i \in DOMAIN players : players[i].is_alive
               /\ current_round = 1
               /\ current_phase = DAY
        /\ IsDay =>
               /\ night_actions.results.saved
               /\ ret.value.votes = [t \in {p1, p2} |-> IF t = p1 THEN 4 ELSE 1]
               /\ ret.value.eliminated = p1
               /\ ret.value.eliminated_role = MAFIA
               /\ ~players[1].is_alive
               /\ current_round = 2
               /\ current_phase = NIGHT
               /\ LivingMafia(players) = 0
               /\ LivingOthers(players) = 4
               /\ is_game_over
               /\ get_winner = "Townspeople"

\* the scenario's own roles, after its day
C24_Witness ==
    /\ IsDay
    /\ [i \in DOMAIN players |-> players[i].role] = ScenarioRoles
    /\ get_winner = "Townspeople"

\* the players who are dead
Dead(ps) == {i \in DOMAIN ps : ~ps[i].is_alive}

\* C26: the turns of simultaneous requests do not interleave: a night is
\* resolved only in phase Night and a day only in phase Day, so none is
\* resolved twice, and at most one player is eliminated in each phase of each
\* round.
C26_TurnsSerialized ==
    /\ IsNight => before.phase = NIGHT
    /\ IsDay => before.phase = DAY
    /\ current_phase # SETUP =>
           Cardinality(Dead(players)) <=
               2 * (current_round - 1) + (IF current_phase = DAY THEN 1 ELSE 0)

\* C27: a night resolution without a mafia target changes no alive flag and
\* no death round and never reports a save; with all three slots empty it
\* returns eliminated none, saved false and no investigation, changes no
\* player, leaves the round as it was and leaves the phase Day.
C27_EmptyNight ==
    IsNight =>
        /\ night_actions.mafia_target = None =>
               /\ ~ret.value.saved
               /\ ret.value.eliminated = None
               /\ \A i \in DOMAIN players :
                      /\ players[i].is_alive = before.players[i].is_alive
                      /\ players[i].death_round = before.players[i].death_round
        /\ (/\ night_actions.mafia_target = None
            /\ night_actions.doctor_save = None
            /\ night_actions.detective_investigation = None) =>
               /\ ret.value = [eliminated |-> None, saved |-> FALSE,
                               investigation_result |-> {}]
               /\ players = before.players
               /\ current_round = before.round
               /\ current_phase = DAY

C27_Witness ==
    /\ IsNight
    /\ before.phase = NIGHT
    /\ night_actions.mafia_target = None
    /\ night_actions.doctor_save = None
    /\ night_actions.detective_investigation = None

\* C28: a step that is a call of is_game_over, get_winner, get_game_state,
\* get_living_players, get_dead_players, is_voting_complete or
\* get_leading_vote_candidate leaves players, phase, round, current votes and
\* the night-action record unchanged, and in every state the win evaluation
\* has a result.
C28_QueriesReadOnly ==
    /\ [](is_game_over \in BOOLEAN /\ get_winner \in {"Mafia", "Townspeople", None})
    /\ [][ret'.op \in QueryOps =>
              UNCHANGED <<players, current_phase, current_round, current_votes,
                          night_actions>>]_vars

\* the leading candidate was asked for while votes and a night record are kept
C28_Witness ==
    /\ ret.op = "get_leading_vote_candidate"
    /\ ret.value # None
    /\ current_votes # EmptyDict
    /\ night_actions # EmptyDict

\* C29: after a night resolution the night-action record holds the round of
\* the resolution, the three targets and the outcome that call returned, in
\* place of any earlier record; a day resolution leaves the record as it is.
C29_NightRecord ==
    /\ [](IsNight =>
            \E mafia_target, doctor_save, detective_investigation \in NightTargets :
                /\ night_actions = [round |-> before.round,
                                    mafia_target |-> mafia_target,
                                    doctor_save |-> doctor_save,
                                    detective_investigation |-> detective_investigation,
                                    results |-> ret.value]
                /\ ret.value = NightResults(before.players, mafia_target, doctor_save,
                                            detective_investigation))
    /\ [][ret'.op = "process_day_voting" => night_actions' = night_actions]_vars

\* a day that ran to its end after a night with a kill: the record is kept
C29_Witness ==
    /\ IsDay
    /\ current_round = 2
    /\ night_actions # EmptyDict
    /\ night_actions.round = 1
    /\ night_actions.results.eliminated # None

\* C30: no night or day resolution is started in a state where the game is
\* over, and a turn requested of a game that is over returns the error
\* "Game is already over" and changes nothing.
C30_DriversStop ==
    /\ (IsNight \/ IsDay) => ~Over(before.players)
    /\ ret.op = "execute_next_turn" =>
           /\ Over(players)
           /\ ret.value = [error |-> "Game is already over"]
           /\ Rejected

\* the voters whose recorded vote is for the target
VotersFor(c, target) == {v \in DOMAIN c.votes : c.votes[v] = target}

\* C38: after any sequence of add_vote, remove_vote and clear the two maps
\* of a VoteCounter agree: vote_counts has, for each target, the number of
\* voters whose recorded vote is for it, and no entry that is not positive;
\* get_total_votes is the number of voters with a recorded vote, each of
\* them counted for exactly one target; get_tied_candidates is the set of
\* the targets that the largest number of voters vote for.
C38_CounterConsistent ==
    /\ \A t \in CounterTargets :
           CountOf(counter.vote_counts, t) = Cardinality(VotersFor(counter, t))
    /\ DOMAIN counter.vote_counts \subseteq CounterTargets
    /\ \A t \in DOMAIN counter.vote_counts : counter.vote_counts[t] > 0
    /\ get_total_votes(counter) =
           Cardinality({v \in CounterVoters : \E t \in CounterTargets :
                                                  v \in VotersFor(counter, t)})
    /\ \A v \in DOMAIN counter.votes :
           Cardinality({t \in CounterTargets : v \in VotersFor(counter, t)}) = 1
    /\ get_tied_candidates(counter) =
           {t \in CounterTargets :
               /\ VotersFor(counter, t) # {}
               /\ \A u \in CounterTargets :
                      Cardinality(VotersFor(counter, u))
                          <= Cardinality(VotersFor(counter, t))}

\* a vote was taken back while three voters remain, two of them tied ahead
\* of the third
C38_Witness ==
    /\ ret.op = "remove_vote"
    /\ get_total_votes(counter) = 3
    /\ Cardinality(get_tied_candidates(counter)) = 1
    /\ Cardinality(DOMAIN counter.vote_counts) = 2

\* C37: after the setup of a game with a supported player count (5..12)
\* under the default settings, the configuration validates and the number
\* of players of each role that assign_roles assigned is the number that
\* GameConfig.get_role_distribution computes for that role.
C37_DistributionRealised ==
    (ret.op = "setup_game" /\ get_total_players \in min_players..max_players)
        => /\ validate_configuration
           /\ Len(players) = get_total_players
           /\ \A r \in Role : RoleCount(r) = get_role_distribution[r]

\* twelve players were set up, three of them Mafia
C37_Witness ==
    /\ ret.op = "setup_game"
    /\ get_total_players = max_players
    /\ validate_configuration
    /\ RoleCount(MAFIA) = 3


\* the players as they were when the last call started, but for one field
Stripped(ps) == [i \in DOMAIN ps |-> [ps[i] EXCEPT !.actions_taken = <<>>]]

\* C36: submit_player_action for a name that no player has, or that a dead
\* player has, returns false and leaves every player as it was; for a living
\* player it returns true and that player's actions_taken is the old list
\* followed by one entry of the type, the target, the round and the phase of
\* the call, while nothing else of any player changes; in both cases the
\* phase, the round, the votes and the night record are left unchanged.
C36_SubmitAction ==
    /\ [](ret.op = "submit_player_action" =>
            LET i == get_player_by_name(before.players, ret.player_name)
            IN  IF ~Living(before.players, ret.player_name)
                   \/ ~before.players[i].is_alive
                THEN ret.value = FALSE /\ players = before.players
                ELSE /\ ret.value = TRUE
                     /\ Stripped(players) = Stripped(before.players)
                     /\ \A j \in DOMAIN players :
                            j # i => players[j].actions_taken
                                        = before.players[j].actions_taken
                     /\ players[i].actions_taken =
                            before.players[i].actions_taken \o
                                <<[type |-> ret.action_type,
                                   target |-> ret.target,
                                   round |-> before.round,
                                   phase |-> before.phase]>>)
    /\ [][ret'.op = "submit_player_action" /\ calls' # calls =>
              UNCHANGED <<current_phase, current_round, current_votes,
                          night_actions>>]_vars

\* an action of a living player was recorded in a game with a dead player
C36_Witness ==
    /\ ret.op = "submit_player_action"
    /\ ret.value = TRUE
    /\ \E i \in DOMAIN players : ~players[i].is_alive
    /\ \E i \in DOMAIN players : Len(players[i].actions_taken) = 1


\* C33: in the turn-based controller the round in the history entry of a
\* night turn is the round of the night record of the game (the round in
\* which the night was resolved), and where a night entry is followed by a
\* day entry the two carry the same round.
C33_TurnRounds ==
    /\ (ret.op = "process_night_actions" /\ game_history # <<>>) =>
           game_history[Len(game_history)].round = night_actions.round
    /\ \A k \in 1..(Len(game_history) - 1) :
           (game_history[k].phase = "night" /\ game_history[k + 1].phase = "day")
               => game_history[k].round = game_history[k + 1].round


\* C35: after a night turn whose investigation was resolved, the detective
\* agent's investigation_results holds the investigated player with the
\* result of the investigation (so that the agent's next choice skips that
\* player and its next vote can name a confirmed Mafia player).
C35_DetectiveInformed ==
    (ret.op = "process_night_actions" /\ ret.value.investigation_result # {}) =>
        /\ night_actions.detective_investigation \in DOMAIN investigation_results
        /\ \A r \in ret.value.investigation_result :
               investigation_results[night_actions.detective_investigation]
                   = r.is_mafia


\* C34: the mafia target handed to a night resolution by a driver is none
\* or the name of a player who is alive and not Mafia when the resolution is
\* called, and it is none when no Mafia member is alive then; no Mafia
\* player who was alive before a night resolution is dead after it.
C34_MafiaTarget ==
    IsNight =>
        /\ \/ night_actions.mafia_target = None
           \/ /\ Living(before.players, night_actions.mafia_target)
              /\ Named(before.players, night_actions.mafia_target).role # MAFIA
        /\ LivingMafia(before.players) = 0 => night_actions.mafia_target = None
        /\ \A i \in DOMAIN players :
               (before.players[i].role = MAFIA /\ before.players[i].is_alive)
                   => players[i].is_alive


\* C32: run_simulation terminates, whatever the agents answer: the loop is
\* left in the end, and when it has been left the game is over or the round
\* counter has passed the cap of 50.
C32_SimulationTerminates ==
    /\ <>(sim.pc = "done")
    /\ [](sim.pc = "done" => (is_game_over \/ sim.game_round > RoundCap))

\* the loop was left at the cap in a game that is not over
C32_Witness ==
    /\ sim.pc = "done"
    /\ sim.game_round = RoundCap + 1
    /\ ~is_game_over
    /\ Cardinality(Dead(players)) = 1


\* C31: in every state that the drivers reach from a valid setup at least
\* one player is alive: the living Mafia and the living others are never
\* both zero.
C31_SomeoneAlive ==
    current_phase # SETUP =>
        ~(LivingMafia(players) = 0 /\ LivingOthers(players) = 0)


====
